---- MODULE Spec2Model ----
(***************************************************************************)
(* Contact-form backend of the portfolio site: POST /api/contact and       *)
(* GET /api/contact/stats (routes/contact.js, asyncWrapper version), the   *)
(* error-normalization wrapper (utils/apiWrapper.js), the Enquiry schema   *)
(* (db/models/Enquiry.js), the DatabaseConnection singleton                *)
(* (db/connection.js) and the mail sender (utils/emailService.js).         *)
(*                                                                         *)
(* A JavaScript handler runs without interruption from one `await` to the  *)
(* next, so each action below is one such run: the code from the point the *)
(* handler is (re)entered up to the next await or to its end.              *)
(***************************************************************************)
EXTENDS Integers, Sequences, FiniteSets, TLC

(***************************************************************************)
(* Bounds of the model.                                                    *)
(***************************************************************************)
\* requests handled in one behaviour of SpecApi
MaxReqs == 2
\* ticks of the wall clock
MaxClock == 1
\* how many times connect() is invoked, the call at startup included
MaxConnects == 2

(***************************************************************************)
(* Program constants.                                                      *)
(***************************************************************************)
NameMaxLen == 50
RequirementMaxLen == 500
PhoneTailMax == 15
SchemaNameMaxLen == 50
SchemaNameMinLen == 1
SchemaRequirementMaxLen == 500
SchemaPhoneTailMax == 15
DuplicateKeyCode == 11000
RecentLimit == 5
ReadyDisconnected == 0
ReadyConnected == 1
ReadyConnecting == 2
ReadyDisconnecting == 3

Reqs == 1..MaxReqs

(***************************************************************************)
(* JavaScript values of the payload fields. A string is the sequence of    *)
(* its characters.                                                         *)
(***************************************************************************)
Undefined == [t |-> "undefined", s |-> <<>>]
Null == [t |-> "null", s |-> <<>>]
\* a JSON number other than 0 (a truthy value that is not a string)
NumberValue == [t |-> "number", s |-> <<>>]
Str(s) == [t |-> "string", s |-> s]
Rep(c, n) == [i \in 1..n |-> c]

\* !v is false
Truthy(v) == \/ v.t = "string" /\ Len(v.s) > 0
             \/ v.t = "number"

WhitespaceChars == {" ", "\t", "\n"}
DigitChars == {"0", "1", "2", "3", "4", "5", "6", "7", "8", "9"}
IsWs(c) == c \in WhitespaceChars

SetMin(S) == CHOOSE x \in S : \A y \in S : x <= y
SetMax(S) == CHOOSE x \in S : \A y \in S : x >= y

\* String.prototype.trim
Trim(s) ==
    LET keep == {i \in 1..Len(s) : ~IsWs(s[i])}
    IN  IF keep = {} THEN <<>> ELSE SubSeq(s, SetMin(keep), SetMax(keep))

\* String.prototype.toLowerCase on the letters the inputs use
LowerOf(c) == CASE c = "A" -> "a" [] c = "B" -> "b" [] c = "L" -> "l" [] OTHER -> c
ToLower(s) == [i \in 1..Len(s) |-> LowerOf(s[i])]

\* /^[^\s@]+@[^\s@]+\.[^\s@]+$/.test(s)
EmailRegexTest(s) ==
    LET n == Len(s)
    IN  \E p \in 2..n :
          /\ s[p] = "@"
          /\ \A i \in 1..n : i # p => (~IsWs(s[i]) /\ s[i] # "@")
          /\ \E q \in (p + 2)..(n - 1) : s[q] = "."

\* /^[\+]?[1-9][\d\s\-\(\)]{0,15}$/.test(s), the bound of the tail given
PhoneRegexTestWith(s, tailMax) ==
    LET n == Len(s)
        first == IF n >= 1 /\ s[1] = "+" THEN 2 ELSE 1
    IN  /\ first <= n
        /\ s[first] \in (DigitChars \ {"0"})
        /\ n - first <= tailMax
        /\ \A i \in (first + 1)..n :
             s[i] \in (DigitChars \cup WhitespaceChars \cup {"-", "(", ")"})

PhoneRegexTest(s) == PhoneRegexTestWith(s, PhoneTailMax)


(***************************************************************************)
(* Dates. An instant is a natural number; the text "T<d>" stands for the   *)
(* ISO-8601 form of instant d, any other text does not parse.              *)
(***************************************************************************)
\* an Invalid Date (its time value is NaN)
InvalidDate == 0 - 1
Instants == 0..9
DigitOf(t) == CASE t = 0 -> "0" [] t = 1 -> "1" [] t = 2 -> "2" [] t = 3 -> "3"
                [] t = 4 -> "4" [] t = 5 -> "5" [] t = 6 -> "6" [] t = 7 -> "7"
                [] t = 8 -> "8" [] OTHER -> "9"
\* Date.prototype.toISOString
IsoString(t) == <<"T", DigitOf(t)>>
\* new Date(text)
DateParse(s) ==
    IF \E t \in Instants : s = IsoString(t)
    THEN CHOOSE t \in Instants : s = IsoString(t)
    ELSE InvalidDate

(***************************************************************************)
(* Error objects: name, message, code (0: none) and the errors map of a    *)
(* validation error (field -> message), which an error may lack.           *)
(***************************************************************************)
NoError == [name |-> "", message |-> "", code |-> 0, hasErrors |-> FALSE,
            errors |-> <<>>, path |-> "", stack |-> ""]
\* error.stack of an Error object
StackText == "Error\n    at /app/routes/contact.js"
\* new Error()
NewError == [NoError EXCEPT !.stack = StackText]
MkError(name, message) == [NewError EXCEPT !.name = name, !.message = message]

MsgNameRequired == "Name is required"
MsgContactRequired == "Either email or phone number must be provided"
MsgNameTooLong == "Name cannot exceed 50 characters"
MsgRequirementTooLong == "Requirement description cannot exceed 500 characters"
MsgEmailInvalid == "Please provide a valid email address"
MsgPhoneInvalid == "Please provide a valid phone number"
MsgDbUnavailable == "Database service temporarily unavailable. Please try again later."
MsgNotAFunction == "name.trim is not a function"
MsgCheckForm == "Please check your form data"
MsgDuplicate == "Duplicate entry detected"
MsgInvalidFormat == "Invalid data format"
MsgGeneric == "There was an error processing your request. Please try again later."
MsgThanks == "Thank you for your message! We have received your enquiry and will get back to you soon."
MsgStatsUnavailable == "Database not available"

\* createValidationError(field, message)
createValidationError(field, message) ==
    [NewError EXCEPT !.name = "ValidationError", !.message = message,
                    !.hasErrors = TRUE, !.errors = (field :> message)]

\* the error built in place when both email and phone are missing
ContactRequiredError ==
    [NewError EXCEPT !.name = "ValidationError", !.message = MsgContactRequired,
                    !.hasErrors = TRUE,
                    !.errors = ("email" :> MsgContactRequired) @@
                               ("phone" :> MsgContactRequired)]

(***************************************************************************)
(* POST /api/contact: the checks of the handler, in the order of the code. *)
(***************************************************************************)
NameTooLongLax(name) == Len(name.s) > NameMaxLen + 1
NameTooLongOffByOne(name) == Len(name.s) >= NameMaxLen
\* name.length > 50
NameTooLong(name) == Len(name.s) > NameMaxLen

\* requirement && requirement.length > 500
RequirementTooLong(requirement) ==
    Truthy(requirement) /\ Len(requirement.s) > RequirementMaxLen

HandlerErrorNoDbCheck(body, dbUp) ==
    IF ~Truthy(body.name) THEN createValidationError("name", MsgNameRequired)
    ELSE IF body.name.t # "string" THEN MkError("TypeError", MsgNotAFunction)
    ELSE IF Len(Trim(body.name.s)) = 0
         THEN createValidationError("name", MsgNameRequired)
    ELSE IF ~Truthy(body.email) /\ ~Truthy(body.phone) THEN ContactRequiredError
    ELSE IF NameTooLong(body.name)
         THEN createValidationError("name", MsgNameTooLong)
    ELSE IF RequirementTooLong(body.requirement)
         THEN createValidationError("requirement", MsgRequirementTooLong)
    ELSE IF Truthy(body.email) /\ ~EmailRegexTest(body.email.s)
         THEN createValidationError("email", MsgEmailInvalid)
    ELSE IF Truthy(body.phone) /\ ~PhoneRegexTest(body.phone.s)
         THEN createValidationError("phone", MsgPhoneInvalid)
    ELSE NoError
HandlerErrorLengthFirst(body, dbUp) ==
    IF ~Truthy(body.name) THEN createValidationError("name", MsgNameRequired)
    ELSE IF body.name.t # "string" THEN MkError("TypeError", MsgNotAFunction)
    ELSE IF Len(Trim(body.name.s)) = 0
         THEN createValidationError("name", MsgNameRequired)
    ELSE IF NameTooLong(body.name)
         THEN createValidationError("name", MsgNameTooLong)
    ELSE IF ~Truthy(body.email) /\ ~Truthy(body.phone) THEN ContactRequiredError
    ELSE IF RequirementTooLong(body.requirement)
         THEN createValidationError("requirement", MsgRequirementTooLong)
    ELSE IF Truthy(body.email) /\ ~EmailRegexTest(body.email.s)
         THEN createValidationError("email", MsgEmailInvalid)
    ELSE IF Truthy(body.phone) /\ ~PhoneRegexTest(body.phone.s)
         THEN createValidationError("phone", MsgPhoneInvalid)
    ELSE IF ~dbUp THEN MkError("Error", MsgDbUnavailable)
    ELSE NoError
\* The error the handler throws before it builds the enquiry, NoError if
\* none; dbUp is the value of isDbConnected() at the check.
HandlerError(body, dbUp) ==
    IF ~Truthy(body.name) THEN createValidationError("name", MsgNameRequired)
    ELSE IF body.name.t # "string" THEN MkError("TypeError", MsgNotAFunction)
    ELSE IF Len(Trim(body.name.s)) = 0
         THEN createValidationError("name", MsgNameRequired)
    ELSE IF ~Truthy(body.email) /\ ~Truthy(body.phone) THEN ContactRequiredError
    ELSE IF NameTooLong(body.name)
         THEN createValidationError("name", MsgNameTooLong)
    ELSE IF RequirementTooLong(body.requirement)
         THEN createValidationError("requirement", MsgRequirementTooLong)
    ELSE IF Truthy(body.email) /\ ~EmailRegexTest(body.email.s)
         THEN createValidationError("email", MsgEmailInvalid)
    ELSE IF Truthy(body.phone) /\ ~PhoneRegexTest(body.phone.s)
         THEN createValidationError("phone", MsgPhoneInvalid)
    ELSE IF ~dbUp THEN MkError("Error", MsgDbUnavailable)
    ELSE NoError

\* v?.trim() || null
TrimOrNull(v) ==
    IF v.t = "string" /\ Len(Trim(v.s)) > 0 THEN Str(Trim(v.s)) ELSE Null

EnquiryDataAlwaysNow(body, clock) ==
    [name |-> Str(Trim(body.name.s)),
     email |-> TrimOrNull(body.email),
     phone |-> TrimOrNull(body.phone),
     requirement |-> TrimOrNull(body.requirement),
     submittedAt |-> clock,
     status |-> "new"]
EnquiryDataClientStatus(body, clock) ==
    [name |-> Str(Trim(body.name.s)),
     email |-> TrimOrNull(body.email),
     phone |-> TrimOrNull(body.phone),
     requirement |-> TrimOrNull(body.requirement),
     submittedAt |-> IF Truthy(body.submittedAt)
                     THEN DateParse(body.submittedAt.s) ELSE clock,
     status |-> IF Truthy(body.status) THEN "closed" ELSE "new"]
\* enquiryData: the object passed to new Enquiry(...); clock is new Date()
EnquiryData(body, clock) ==
    [name |-> Str(Trim(body.name.s)),
     email |-> TrimOrNull(body.email),
     phone |-> TrimOrNull(body.phone),
     requirement |-> TrimOrNull(body.requirement),
     submittedAt |-> IF Truthy(body.submittedAt)
                     THEN DateParse(body.submittedAt.s) ELSE clock,
     status |-> "new"]

(***************************************************************************)
(* The Enquiry schema: setters applied by the constructor, validators run  *)
(* by save(), and the pre-save hook.                                       *)
(***************************************************************************)
\* trim: true (and lowercase: true for email); null stays null
SetTrim(v) == IF v.t = "string" THEN Str(Trim(v.s)) ELSE v
SetTrimKeepCase(v) == IF v.t = "string" THEN Str(Trim(v.s)) ELSE v
SetTrimLower(v) == IF v.t = "string" THEN Str(ToLower(Trim(v.s))) ELSE v

\* new Enquiry(data): the document, with the identifier drawn for it
NewEnquiry(data, id) ==
    [id |-> id,
     name |-> SetTrim(data.name),
     email |-> SetTrimLower(data.email),
     phone |-> SetTrim(data.phone),
     requirement |-> SetTrim(data.requirement),
     submittedAt |-> data.submittedAt,
     status |-> data.status]

MsgSchemaNameEmpty == "Name cannot be empty"
MsgCastDate == "Cast to date failed"

\* the paths the schema's validators reject, each with its message
SchemaErrors(doc) ==
    (IF ~Truthy(doc.name) THEN ("name" :> MsgNameRequired)
     ELSE IF Len(doc.name.s) > SchemaNameMaxLen THEN ("name" :> MsgNameTooLong)
     ELSE IF Len(doc.name.s) < SchemaNameMinLen THEN ("name" :> MsgSchemaNameEmpty)
     ELSE <<>>)
    @@ (IF Truthy(doc.email) /\ ~EmailRegexTest(doc.email.s)
        THEN ("email" :> MsgEmailInvalid) ELSE <<>>)
    @@ (IF Truthy(doc.phone) /\ ~PhoneRegexTestWith(doc.phone.s, SchemaPhoneTailMax)
        THEN ("phone" :> MsgPhoneInvalid) ELSE <<>>)
    @@ (IF doc.requirement.t = "string" /\ Len(doc.requirement.s) > SchemaRequirementMaxLen
        THEN ("requirement" :> MsgRequirementTooLong) ELSE <<>>)
    @@ (IF doc.submittedAt = InvalidDate
        THEN ("submittedAt" :> MsgCastDate) ELSE <<>>)

\* enquirySchema.pre('save'): a ValidationError that carries no errors map
PreSaveFails(doc) == ~Truthy(doc.email) /\ ~Truthy(doc.phone)
PreSaveError == [NewError EXCEPT !.name = "ValidationError",
                                !.message = MsgContactRequired]

\* What save() rejects with before it reaches the store, NoError if nothing
SaveValidationError(doc) ==
    IF DOMAIN SchemaErrors(doc) # {}
    THEN [NewError EXCEPT !.name = "ValidationError",
                         !.message = "Enquiry validation failed",
                         !.hasErrors = TRUE, !.errors = SchemaErrors(doc)]
    ELSE IF PreSaveFails(doc) THEN PreSaveError
    ELSE NoError


(***************************************************************************)
(* Responses: res.status(s).json(body). A field the body does not carry    *)
(* (or carries as undefined, which JSON drops) has its has* flag FALSE.    *)
(***************************************************************************)
NoData == [totalEnquiries |-> 0, newEnquiries |-> 0, contactedEnquiries |-> 0,
           recentEnquiries |-> <<>>]
Response(status, success, message) ==
    [status |-> status, success |-> success, message |-> message,
     hasErrors |-> FALSE, errors |-> <<>>,
     hasError |-> FALSE, error |-> "",
     hasEnquiry |-> FALSE, enquiryId |-> 0, submittedAt |-> <<>>,
     hasData |-> FALSE, data |-> NoData]

\* handleError throws itself: Object.keys(error.errors) of a validation
\* error without an errors map
HandleErrorThrows(e) == e.name = "ValidationError" /\ ~e.hasErrors

HandleErrorStatusNoCast(e) ==
    IF e.name = "ValidationError" THEN 400
    ELSE IF e.code = DuplicateKeyCode THEN 400
    ELSE IF e.name = "JsonWebTokenError" THEN 401
    ELSE IF e.name = "TooManyRequests" THEN 429
    ELSE 500
\* the status handleError answers with
HandleErrorStatus(e) ==
    IF e.name = "ValidationError" THEN 400
    ELSE IF e.code = DuplicateKeyCode THEN 400
    ELSE IF e.name = "CastError" THEN 400
    ELSE IF e.name = "JsonWebTokenError" THEN 401
    ELSE IF e.name = "TooManyRequests" THEN 429
    ELSE 500

HandleErrorResponseLeaky(e, env) ==
    IF e.name = "ValidationError"
    THEN [Response(HandleErrorStatus(e), FALSE, MsgCheckForm)
            EXCEPT !.hasErrors = TRUE, !.errors = e.errors]
    ELSE IF e.code = DuplicateKeyCode
    THEN [Response(HandleErrorStatus(e), FALSE, MsgDuplicate)
            EXCEPT !.hasErrors = TRUE,
                   !.errors = ("general" :> "This entry appears to be a duplicate")]
    ELSE IF e.name = "CastError"
    THEN [Response(HandleErrorStatus(e), FALSE, MsgInvalidFormat)
            EXCEPT !.hasErrors = TRUE,
                   !.errors = (e.path :> "Invalid format for this field")]
    ELSE IF e.name = "JsonWebTokenError"
    THEN Response(HandleErrorStatus(e), FALSE, "Invalid token")
    ELSE IF e.name = "TooManyRequests"
    THEN Response(HandleErrorStatus(e), FALSE,
                  "Too many requests. Please try again later.")
    ELSE [Response(HandleErrorStatus(e), FALSE, MsgGeneric)
            EXCEPT !.hasError = TRUE, !.error = e.stack]
\* the response handleError sends for error e, NODE_ENV being env
HandleErrorResponse(e, env) ==
    IF e.name = "ValidationError"
    THEN [Response(HandleErrorStatus(e), FALSE, MsgCheckForm)
            EXCEPT !.hasErrors = TRUE, !.errors = e.errors]
    ELSE IF e.code = DuplicateKeyCode
    THEN [Response(HandleErrorStatus(e), FALSE, MsgDuplicate)
            EXCEPT !.hasErrors = TRUE,
                   !.errors = ("general" :> "This entry appears to be a duplicate")]
    ELSE IF e.name = "CastError"
    THEN [Response(HandleErrorStatus(e), FALSE, MsgInvalidFormat)
            EXCEPT !.hasErrors = TRUE,
                   !.errors = (e.path :> "Invalid format for this field")]
    ELSE IF e.name = "JsonWebTokenError"
    THEN Response(HandleErrorStatus(e), FALSE, "Invalid token")
    ELSE IF e.name = "TooManyRequests"
    THEN Response(HandleErrorStatus(e), FALSE,
                  "Too many requests. Please try again later.")
    ELSE [Response(HandleErrorStatus(e), FALSE, MsgGeneric)
            EXCEPT !.hasError = (env = "development"),
                   !.error = IF env = "development" THEN e.message ELSE ""]

(***************************************************************************)
(* State.                                                                  *)
(***************************************************************************)
VARIABLES
    running,      \* the process has not exited
    isConnected,  \* DatabaseConnection.isConnected
    readyState,   \* mongoose.connection.readyState
    nodeEnv,      \* process.env.NODE_ENV
    exitCode,     \* the code the process exited with, NoExit while it runs
    closing,      \* who is suspended at `await mongoose.connection.close()`
    lastFlagChange,   \* the last occurrence that wrote isConnected
    connectCalls,     \* how many times connect() was invoked
    mongooseConnects, \* how many times mongoose.connect(...) was called
    now,          \* the wall clock
    store,        \* the Enquiry collection: a set of documents
    nextId,       \* the next identifier new Enquiry() draws
    pc,           \* per request: the await its handler is suspended at
    kind,         \* per request: "post", "stats" or "other"
    body,         \* per request: req.body
    dbUp,         \* per request: what isDbConnected() returned to it
    doc,          \* per request: the Enquiry document it built
    err,          \* per request: the error the wrapper caught
    res,          \* per request: the responses sent, in order
    log,          \* per request: the log entries written for it, in order
    mail,         \* per request: the mail send attempts made for it
    escaped,      \* per request: the wrapped middleware's promise rejected
    stats         \* per request: what the statistics queries returned

connVars == <<exitCode, closing, lastFlagChange, connectCalls, mongooseConnects>>
dbVars == <<running, isConnected, readyState, nodeEnv, connVars>>
reqVars == <<pc, kind, body, dbUp, doc, err, res, log, mail, escaped, stats>>
vars == <<dbVars, now, store, nextId, reqVars>>

\* status: a field the client may send and the handler does not read
NoBody == [name |-> Undefined, email |-> Undefined, phone |-> Undefined,
           requirement |-> Undefined, submittedAt |-> Undefined,
           status |-> Undefined]
NoDoc == [id |-> 0, name |-> Null, email |-> Null, phone |-> Null,
          requirement |-> Null, submittedAt |-> 0, status |-> ""]
\* queries: the queries issued so far; data: what they returned; from: the
\* collection as it was when the handler issued its first query
NoStats == [queries |-> 0, data |-> NoData, from |-> {}]
NodeEnvs == {"development", "production", "unset"}
\* the process has not called process.exit
NoExit == 0 - 1

\* isDbConnected()
isDbConnected == isConnected /\ readyState = ReadyConnected

\* url, method, user agent and ip of request r
\* (k its kind)
ContextOf(k, r) ==
    [url |-> IF k = "stats" THEN "/contact/stats" ELSE "/contact",
     method |-> IF k = "stats" THEN "GET" ELSE "POST",
     userAgent |-> "agent", ip |-> r]

NoContext == [url |-> "", method |-> "", userAgent |-> "", ip |-> 0]
\* a log line: level, message, and the error message and request context
\* of its metadata, where it has them
Entry(level, message) ==
    [level |-> level, message |-> message, error |-> "", ctx |-> NoContext]
ErrorEntry(message, errorMessage, ctx) ==
    [level |-> "error", message |-> message, error |-> errorMessage, ctx |-> ctx]

\* the server has started: NODE_ENV is one of envs, the collection one of
\* stores
Start(envs, stores) ==
    /\ running = TRUE
    /\ isConnected = FALSE
    /\ readyState = ReadyConnecting
    /\ nodeEnv \in envs
    /\ exitCode = NoExit
    /\ closing = "none"
    /\ lastFlagChange = "constructor"
    /\ connectCalls = 1
    /\ mongooseConnects = 1
    /\ now = 0
    /\ store \in stores
    /\ nextId = 1
    /\ pc = [r \in Reqs |-> "idle"]
    /\ kind = [r \in Reqs |-> ""]
    /\ body = [r \in Reqs |-> NoBody]
    /\ dbUp = [r \in Reqs |-> FALSE]
    /\ doc = [r \in Reqs |-> NoDoc]
    /\ err = [r \in Reqs |-> NoError]
    /\ res = [r \in Reqs |-> <<>>]
    /\ log = [r \in Reqs |-> <<>>]
    /\ mail = [r \in Reqs |-> <<>>]
    /\ escaped = [r \in Reqs |-> FALSE]
    /\ stats = [r \in Reqs |-> NoStats]

\* the server starts on an empty collection
Init == Start(NodeEnvs, {{}})


(***************************************************************************)
(* The error-normalization wrapper. asyncWrapper catches what the handler  *)
(* throws and awaits handleError, which logs, awaits sendErrorEmail and    *)
(* then answers.                                                           *)
(***************************************************************************)
Pending(k) == [kind |-> k, status |-> "pending"]
\* how a send attempt settles; "failed" is what sendEmail rethrows from its
\* catch: createTransporter() throwing, or sendMail rejecting
MailOutcomes == {"sent", "failed"}
\* the last send attempt of request r settled with outcome o
MailSettled(r, o) ==
    [mail EXCEPT ![r][Len(mail[r])].status = IF o = "sent" THEN "sent" ELSE "failed"]

\* sendEmail's own log line for outcome o
SendEmailEntry(o) ==
    IF o = "sent" THEN Entry("info", "Email sent successfully")
    ELSE ErrorEntry("Failed to send email", o, NoContext)

EnterHandleErrorNoLog(r, k, e, lg) ==
    /\ err' = [err EXCEPT ![r] = e]
    /\ log' = [log EXCEPT ![r] = lg]
    /\ mail' = [mail EXCEPT ![r] = Append(@, Pending("error"))]
    /\ pc' = [pc EXCEPT ![r] = "error_mail"]
\* handleError(e) entered for request r of kind k, whose log so far is lg:
\* log.error(...), then sendErrorEmail(...) is called and awaited
EnterHandleError(r, k, e, lg) ==
    /\ err' = [err EXCEPT ![r] = e]
    /\ log' = [log EXCEPT ![r] =
                 Append(lg, ErrorEntry("API Error occurred", e.message, ContextOf(k, r)))]
    /\ mail' = [mail EXCEPT ![r] = Append(@, Pending("error"))]
    /\ pc' = [pc EXCEPT ![r] = "error_mail"]

ErrorMailSettleTainted(r, o) ==
    /\ running
    /\ pc[r] = "error_mail"
    /\ mail' = MailSettled(r, o)
    /\ log' = [log EXCEPT ![r] =
                 IF o = "sent" THEN Append(@, SendEmailEntry(o))
                 ELSE @ \o <<SendEmailEntry(o),
                              ErrorEntry("Failed to send error email", o, NoContext)>>]
    /\ IF HandleErrorThrows(err[r])
       THEN /\ escaped' = [escaped EXCEPT ![r] = TRUE]
            /\ res' = res
       ELSE /\ res' = [res EXCEPT ![r] =
                         IF o = "sent" THEN Append(@, HandleErrorResponse(err[r], nodeEnv))
                         ELSE Append(@, Response(500, FALSE, MsgGeneric))]
            /\ escaped' = escaped
    /\ pc' = [pc EXCEPT ![r] = "done"]
    /\ UNCHANGED <<dbVars, now, store, nextId, kind, body, dbUp, doc, err, stats>>
ErrorMailSettleSilent(r, o) ==
    /\ running
    /\ pc[r] = "error_mail"
    /\ mail' = MailSettled(r, o)
    /\ log' = [log EXCEPT ![r] =
                 IF o = "sent" THEN Append(@, SendEmailEntry(o))
                 ELSE @ \o <<SendEmailEntry(o),
                              ErrorEntry("Failed to send error email", o, NoContext)>>]
    /\ IF HandleErrorThrows(err[r])
       THEN /\ escaped' = [escaped EXCEPT ![r] = TRUE]
            /\ res' = res
       ELSE /\ res' = [res EXCEPT ![r] =
                         IF o = "sent" THEN Append(@, HandleErrorResponse(err[r], nodeEnv))
                         ELSE @]
            /\ escaped' = escaped
    /\ pc' = [pc EXCEPT ![r] = "done"]
    /\ UNCHANGED <<dbVars, now, store, nextId, kind, body, dbUp, doc, err, stats>>
\* sendErrorEmail settled: handleError goes on to classify and answer
ErrorMailSettle(r, o) ==
    /\ running
    /\ pc[r] = "error_mail"
    /\ mail' = MailSettled(r, o)
    /\ log' = [log EXCEPT ![r] =
                 IF o = "sent" THEN Append(@, SendEmailEntry(o))
                 ELSE @ \o <<SendEmailEntry(o),
                              ErrorEntry("Failed to send error email", o, NoContext)>>]
    /\ IF HandleErrorThrows(err[r])
       THEN /\ escaped' = [escaped EXCEPT ![r] = TRUE]
            /\ res' = res
       ELSE /\ res' = [res EXCEPT ![r] = Append(@, HandleErrorResponse(err[r], nodeEnv))]
            /\ escaped' = escaped
    /\ pc' = [pc EXCEPT ![r] = "done"]
    /\ UNCHANGED <<dbVars, now, store, nextId, kind, body, dbUp, doc, err, stats>>

\* the errors a wrapped handler may throw: every name handleError tells
\* apart, with and without the duplicate-key code and an errors map
ThrownErrors ==
    {[name |-> n, message |-> "boom", code |-> c, hasErrors |-> h,
      errors |-> IF h THEN ("field" :> "bad") ELSE <<>>,
      path |-> IF n = "CastError" THEN "field" ELSE "", stack |-> StackText] :
        n \in {"ValidationError", "CastError", "JsonWebTokenError",
               "TooManyRequests", "Error"},
        c \in {0, DuplicateKeyCode}, h \in BOOLEAN}

\* asyncWrapper(fn) for a handler fn that throws e
WrappedHandlerThrows(r, e) ==
    /\ running
    /\ pc[r] = "idle"
    /\ kind' = [kind EXCEPT ![r] = "other"]
    /\ EnterHandleError(r, "other", e, log[r])
    /\ UNCHANGED <<dbVars, now, store, nextId, body, dbUp, doc, res, escaped, stats>>

(***************************************************************************)
(* POST /api/contact                                                       *)
(***************************************************************************)
PostContactSharedId(r, b) ==
    /\ running
    /\ pc[r] = "idle"
    /\ kind' = [kind EXCEPT ![r] = "post"]
    /\ body' = [body EXCEPT ![r] = b]
    /\ dbUp' = [dbUp EXCEPT ![r] = isDbConnected]
    /\ LET e == HandlerError(b, isDbConnected)
           received == Append(log[r], Entry("info", "Received contact form submission"))
       IN  IF e # NoError
           THEN /\ EnterHandleError(r, "post", e,
                      IF e.message = MsgDbUnavailable
                      THEN Append(received,
                             Entry("warn", "Database not connected, unable to save enquiry"))
                      ELSE received)
                /\ UNCHANGED <<doc, nextId>>
           ELSE /\ doc' = [doc EXCEPT ![r] = NewEnquiry(EnquiryData(b, now), nextId)]
                /\ nextId' = nextId
                /\ log' = [log EXCEPT ![r] =
                             Append(received, Entry("info", "Saving enquiry to database..."))]
                /\ pc' = [pc EXCEPT ![r] = "saving"]
                /\ UNCHANGED <<err, mail>>
    /\ UNCHANGED <<dbVars, now, store, res, escaped, stats>>
\* the request arrives: the handler runs up to `await enquiry.save()`, or
\* throws into the wrapper
PostContact(r, b) ==
    /\ running
    /\ pc[r] = "idle"
    /\ kind' = [kind EXCEPT ![r] = "post"]
    /\ body' = [body EXCEPT ![r] = b]
    /\ dbUp' = [dbUp EXCEPT ![r] = isDbConnected]
    /\ LET e == HandlerError(b, isDbConnected)
           received == Append(log[r], Entry("info", "Received contact form submission"))
       IN  IF e # NoError
           THEN /\ EnterHandleError(r, "post", e,
                      IF e.message = MsgDbUnavailable
                      THEN Append(received,
                             Entry("warn", "Database not connected, unable to save enquiry"))
                      ELSE received)
                /\ UNCHANGED <<doc, nextId>>
           ELSE /\ doc' = [doc EXCEPT ![r] = NewEnquiry(EnquiryData(b, now), nextId)]
                /\ nextId' = nextId + 1
                /\ log' = [log EXCEPT ![r] =
                             Append(received, Entry("info", "Saving enquiry to database..."))]
                /\ pc' = [pc EXCEPT ![r] = "saving"]
                /\ UNCHANGED <<err, mail>>
    /\ UNCHANGED <<dbVars, now, store, res, escaped, stats>>

SaveOutcomes == {"ok", "network", "duplicate"}
\* what the store answers an insert with
StoreError(o) ==
    IF o = "network" THEN MkError("MongoNetworkError", "connection timed out")
    ELSE IF o = "duplicate"
    THEN [MkError("MongoServerError", "E11000 duplicate key error")
            EXCEPT !.code = DuplicateKeyCode]
    ELSE NoError

SaveSettleOverwrite(r, o) ==
    /\ running
    /\ pc[r] = "saving"
    /\ LET ve == SaveValidationError(doc[r])
           e == IF ve # NoError THEN ve ELSE StoreError(o)
       IN  /\ ve # NoError => o = "ok"
           /\ (ve = NoError /\ o = "ok") => readyState = ReadyConnected
           /\ IF e # NoError
              THEN /\ EnterHandleError(r, "post", e, log[r])
                   /\ store' = store
              ELSE /\ store' = {doc[r]}
                   /\ log' = [log EXCEPT ![r] =
                                @ \o <<Entry("info", "Enquiry saved successfully"),
                                       Entry("info", "Enquiry ID")>>]
                   /\ mail' = [mail EXCEPT ![r] = Append(@, Pending("enquiry"))]
                   /\ pc' = [pc EXCEPT ![r] = "enquiry_mail"]
                   /\ err' = err
    /\ UNCHANGED <<dbVars, now, nextId, kind, body, dbUp, doc, res, escaped, stats>>
\* enquiry.save() settled: validation first, then the insert with outcome o
SaveSettle(r, o) ==
    /\ running
    /\ pc[r] = "saving"
    /\ LET ve == SaveValidationError(doc[r])
           e == IF ve # NoError THEN ve ELSE StoreError(o)
       IN  /\ ve # NoError => o = "ok"
           /\ (ve = NoError /\ o = "ok") => readyState = ReadyConnected
           /\ IF e # NoError
              THEN /\ EnterHandleError(r, "post", e, log[r])
                   /\ store' = store
              ELSE /\ store' = store \cup {doc[r]}
                   /\ log' = [log EXCEPT ![r] =
                                @ \o <<Entry("info", "Enquiry saved successfully"),
                                       Entry("info", "Enquiry ID")>>]
                   /\ mail' = [mail EXCEPT ![r] = Append(@, Pending("enquiry"))]
                   /\ pc' = [pc EXCEPT ![r] = "enquiry_mail"]
                   /\ err' = err
    /\ UNCHANGED <<dbVars, now, nextId, kind, body, dbUp, doc, res, escaped, stats>>

CreatedUnflagged(d) ==
    [Response(201, FALSE, MsgThanks)
       EXCEPT !.hasEnquiry = TRUE, !.enquiryId = d.id,
              !.submittedAt = IsoString(d.submittedAt)]
\* the 201 response for the saved document d
Created(d) ==
    [Response(201, TRUE, MsgThanks)
       EXCEPT !.hasEnquiry = TRUE, !.enquiryId = d.id,
              !.submittedAt = IsoString(d.submittedAt)]

EnquiryMailSettleRethrow(r, o) ==
    /\ running
    /\ pc[r] = "enquiry_mail"
    /\ IF o = "sent"
       THEN /\ mail' = MailSettled(r, o)
            /\ log' = [log EXCEPT ![r] = Append(@, SendEmailEntry(o))]
            /\ res' = [res EXCEPT ![r] = Append(@, Created(doc[r]))]
            /\ pc' = [pc EXCEPT ![r] = "done"]
            /\ err' = err
       ELSE /\ err' = [err EXCEPT ![r] = MkError("Error", o)]
            /\ log' = [log EXCEPT ![r] =
                 Append(@, ErrorEntry("API Error occurred", o, ContextOf("post", r)))]
            /\ mail' = [MailSettled(r, o) EXCEPT ![r] = Append(@, Pending("error"))]
            /\ pc' = [pc EXCEPT ![r] = "error_mail"]
            /\ res' = res
    /\ UNCHANGED <<dbVars, now, store, nextId, kind, body, dbUp, doc, escaped, stats>>
EnquiryMailSettleRetry(r, o) ==
    /\ running
    /\ pc[r] = "enquiry_mail"
    /\ log' = [log EXCEPT ![r] = Append(@, SendEmailEntry(o))]
    /\ IF o = "sent" \/ Len(mail[r]) > 1
       THEN /\ mail' = MailSettled(r, o)
            /\ res' = [res EXCEPT ![r] = Append(@, Created(doc[r]))]
            /\ pc' = [pc EXCEPT ![r] = "done"]
       ELSE /\ mail' = [MailSettled(r, o) EXCEPT ![r] = Append(@, Pending("enquiry"))]
            /\ UNCHANGED <<res, pc>>
    /\ UNCHANGED <<dbVars, now, store, nextId, kind, body, dbUp, doc, err, escaped, stats>>
\* sendEnquiryEmail settled: a failure is logged and swallowed, then the
\* handler answers 201
EnquiryMailSettle(r, o) ==
    /\ running
    /\ pc[r] = "enquiry_mail"
    /\ mail' = MailSettled(r, o)
    /\ log' = [log EXCEPT ![r] =
                 IF o = "sent"
                 THEN @ \o <<SendEmailEntry(o),
                             Entry("info", "Enquiry notification email sent successfully")>>
                 ELSE @ \o <<SendEmailEntry(o),
                             ErrorEntry("Failed to send enquiry notification email",
                                        o, NoContext)>>]
    /\ res' = [res EXCEPT ![r] = Append(@, Created(doc[r]))]
    /\ pc' = [pc EXCEPT ![r] = "done"]
    /\ UNCHANGED <<dbVars, now, store, nextId, kind, body, dbUp, doc, err, escaped, stats>>


(***************************************************************************)
(* GET /api/contact/stats                                                  *)
(***************************************************************************)
CountWhere(S, st) == Cardinality({d \in S : d.status = st})

\* what the handler keeps of a document returned by getRecentEnquiries
RecentItem(d) ==
    [id |-> d.id, name |-> d.name, email |-> d.email, phone |-> d.phone,
     submittedAt |-> d.submittedAt, status |-> d.status]

\* find().sort({submittedAt: -1}).limit(limit) over the documents S: the
\* orders the store may return (documents of equal submittedAt in any order)
RecentSeqs(S, limit) ==
    LET k == IF Cardinality(S) < limit THEN Cardinality(S) ELSE limit
    IN  {q \in [1..k -> S] :
           /\ \A i, j \in 1..k : i < j =>
                (q[i] # q[j] /\ q[i].submittedAt >= q[j].submittedAt)
           /\ \A d \in S : (\A i \in 1..k : q[i] # d) =>
                (\A i \in 1..k : q[i].submittedAt >= d.submittedAt)}

\* the request arrives: 503 when the store is not connected, else the first
\* count is issued and awaited
GetStatsNoCheck(r) ==
    /\ running
    /\ pc[r] = "idle"
    /\ kind' = [kind EXCEPT ![r] = "stats"]
    /\ dbUp' = [dbUp EXCEPT ![r] = isDbConnected]
    /\ stats' = [stats EXCEPT ![r].queries = 1, ![r].from = store]
    /\ pc' = [pc EXCEPT ![r] = "count_total"]
    /\ UNCHANGED <<dbVars, now, store, nextId, body, doc, err, res, log, mail, escaped>>

GetStats(r) ==
    /\ running
    /\ pc[r] = "idle"
    /\ kind' = [kind EXCEPT ![r] = "stats"]
    /\ dbUp' = [dbUp EXCEPT ![r] = isDbConnected]
    /\ IF ~isDbConnected
       THEN /\ res' = [res EXCEPT ![r] =
                         Append(@, Response(503, FALSE, MsgStatsUnavailable))]
            /\ pc' = [pc EXCEPT ![r] = "done"]
            /\ stats' = stats
       ELSE /\ stats' = [stats EXCEPT ![r].queries = 1, ![r].from = store]
            /\ pc' = [pc EXCEPT ![r] = "count_total"]
            /\ res' = res
    /\ UNCHANGED <<dbVars, now, store, nextId, body, doc, err, log, mail, escaped>>

StatsQueryFailsSilent(r) ==
    /\ running
    /\ pc[r] \in {"count_total", "count_new", "recent", "count_contacted"}
    /\ err' = [err EXCEPT ![r] = StoreError("network")]
    /\ pc' = [pc EXCEPT ![r] = "done"]
    /\ UNCHANGED <<dbVars, now, store, nextId, kind, body, dbUp, doc, res, log,
                   mail, escaped, stats>>
\* a query of the handler fails: the wrapper takes over
StatsQueryFails(r) ==
    /\ running
    /\ pc[r] \in {"count_total", "count_new", "recent", "count_contacted"}
    /\ EnterHandleError(r, "stats", StoreError("network"), log[r])
    /\ UNCHANGED <<dbVars, now, store, nextId, kind, body, dbUp, doc, res, escaped, stats>>

StatsQueryReturnsMarking(r) ==
    /\ running
    /\ readyState = ReadyConnected
    /\ pc[r] \in {"count_total", "count_new", "recent", "count_contacted"}
    /\ \E recent \in RecentSeqs(store, RecentLimit) :
         LET d == stats[r].data
             got == CASE pc[r] = "count_total" ->
                           [d EXCEPT !.totalEnquiries = Cardinality(store)]
                      [] pc[r] = "count_new" ->
                           [d EXCEPT !.newEnquiries = CountWhere(store, "new")]
                      [] pc[r] = "recent" ->
                           [d EXCEPT !.recentEnquiries =
                                [i \in DOMAIN recent |-> RecentItem(recent[i])]]
                      [] OTHER ->
                           [d EXCEPT !.contactedEnquiries = CountWhere(store, "contacted")]
         IN  /\ pc[r] # "recent" => recent = CHOOSE q \in RecentSeqs(store, RecentLimit) : TRUE
             /\ IF pc[r] = "count_contacted"
                THEN /\ stats' = [stats EXCEPT ![r].data = got]
                     /\ res' = [res EXCEPT ![r] =
                          Append(@, [Response(200, TRUE, "")
                                       EXCEPT !.hasData = TRUE, !.data = got])]
                     /\ pc' = [pc EXCEPT ![r] = "done"]
                ELSE /\ stats' = [stats EXCEPT ![r].data = got, ![r].queries = @ + 1]
                     /\ res' = res
                     /\ pc' = [pc EXCEPT ![r] =
                          CASE pc[r] = "count_total" -> "count_new"
                            [] pc[r] = "count_new" -> "recent"
                            [] OTHER -> "count_contacted"]
    /\ store' = IF pc[r] = "recent"
                THEN {[d EXCEPT !.status = "contacted"] : d \in store}
                ELSE store
    /\ UNCHANGED <<dbVars, now, nextId, kind, body, dbUp, doc, err, log, mail, escaped>>

\* a query of the handler returns: the next one is issued, or, after the
\* last one, the 200 response is sent (res.json: the status stays 200)
StatsQueryReturns(r) ==
    /\ running
    /\ readyState = ReadyConnected
    /\ pc[r] \in {"count_total", "count_new", "recent", "count_contacted"}
    /\ \E recent \in RecentSeqs(store, RecentLimit) :
         LET d == stats[r].data
             got == CASE pc[r] = "count_total" ->
                           [d EXCEPT !.totalEnquiries = Cardinality(store)]
                      [] pc[r] = "count_new" ->
                           [d EXCEPT !.newEnquiries = CountWhere(store, "new")]
                      [] pc[r] = "recent" ->
                           [d EXCEPT !.recentEnquiries =
                                [i \in DOMAIN recent |-> RecentItem(recent[i])]]
                      [] OTHER ->
                           [d EXCEPT !.contactedEnquiries = CountWhere(store, "contacted")]
         IN  /\ pc[r] # "recent" => recent = CHOOSE q \in RecentSeqs(store, RecentLimit) : TRUE
             /\ IF pc[r] = "count_contacted"
                THEN /\ stats' = [stats EXCEPT ![r].data = got]
                     /\ res' = [res EXCEPT ![r] =
                          Append(@, [Response(200, TRUE, "")
                                       EXCEPT !.hasData = TRUE, !.data = got])]
                     /\ pc' = [pc EXCEPT ![r] = "done"]
                ELSE /\ stats' = [stats EXCEPT ![r].data = got, ![r].queries = @ + 1]
                     /\ res' = res
                     /\ pc' = [pc EXCEPT ![r] =
                          CASE pc[r] = "count_total" -> "count_new"
                            [] pc[r] = "count_new" -> "recent"
                            [] OTHER -> "count_contacted"]
    /\ UNCHANGED <<dbVars, now, store, nextId, kind, body, dbUp, doc, err, log, mail, escaped>>

(***************************************************************************)
(* markAsContacted(), called by an administrative process on a document it *)
(* has loaded: the status is set and the document saved, which runs the    *)
(* validators and the pre-save hook again. A save that is rejected, and    *)
(* one of a document already contacted, leave the store as it is.          *)
(***************************************************************************)
MarkAsContactedReplace(d) ==
    /\ running
    /\ d \in store
    /\ d.status # "contacted"
    /\ readyState = ReadyConnected
    /\ store' = (store \ {d}) \cup {[NoDoc EXCEPT !.id = d.id, !.status = "contacted"]}
    /\ UNCHANGED <<dbVars, now, nextId, reqVars>>

MarkAsContacted(d) ==
    /\ running
    /\ d \in store
    /\ d.status # "contacted"
    /\ readyState = ReadyConnected
    /\ LET m == [d EXCEPT !.status = "contacted"]
       IN  /\ SaveValidationError(m) = NoError
           /\ store' = (store \ {d}) \cup {m}
    /\ UNCHANGED <<dbVars, now, nextId, reqVars>>

(***************************************************************************)
(* The database connection: connect() called at startup is suspended at    *)
(* `await mongoose.connect(...)` when the server starts to listen; then    *)
(* the connection's events set and clear the flag.                         *)
(***************************************************************************)
\* mongoose.connect resolves: 'connected' fires, connect() sets the flag
ConnectOk ==
    /\ running
    /\ readyState = ReadyConnecting
    /\ readyState' = ReadyConnected
    /\ isConnected' = TRUE
    /\ lastFlagChange' = "connect"
    /\ UNCHANGED <<running, nodeEnv, exitCode, closing, connectCalls,
                   mongooseConnects, now, store, nextId, reqVars>>

\* mongoose.connect rejects: process.exit(1)
ConnectFail ==
    /\ running
    /\ readyState = ReadyConnecting
    /\ readyState' = ReadyDisconnected
    /\ running' = FALSE
    /\ exitCode' = 1
    /\ UNCHANGED <<isConnected, nodeEnv, closing, lastFlagChange, connectCalls,
                   mongooseConnects, now, store, nextId, reqVars>>

\* on('disconnected')
OnDisconnected ==
    /\ running
    /\ readyState = ReadyConnected
    /\ readyState' = ReadyDisconnected
    /\ isConnected' = FALSE
    /\ lastFlagChange' = "disconnected"
    /\ UNCHANGED <<running, nodeEnv, exitCode, closing, connectCalls,
                   mongooseConnects, now, store, nextId, reqVars>>

\* on('connected') / on('reconnected') after a connection loss
OnReconnected ==
    /\ running
    /\ readyState = ReadyDisconnected
    /\ readyState' = ReadyConnected
    /\ isConnected' = TRUE
    /\ lastFlagChange' = "reconnected"
    /\ UNCHANGED <<running, nodeEnv, exitCode, closing, connectCalls,
                   mongooseConnects, now, store, nextId, reqVars>>

\* on('error'): the flag is cleared, the connection stays as it is
OnError ==
    /\ running
    /\ readyState \in {ReadyConnected, ReadyDisconnected}
    /\ isConnected
    /\ isConnected' = FALSE
    /\ lastFlagChange' = "error"
    /\ UNCHANGED <<running, readyState, nodeEnv, exitCode, closing, connectCalls,
                   mongooseConnects, now, store, nextId, reqVars>>

ConnectAgainUnguarded ==
    /\ running
    /\ closing = "none"
    /\ readyState \in {ReadyConnected, ReadyDisconnected}
    /\ connectCalls < MaxConnects
    /\ connectCalls' = connectCalls + 1
    /\ mongooseConnects' = mongooseConnects + 1
    /\ IF readyState = ReadyConnected
       THEN /\ isConnected' = TRUE
            /\ lastFlagChange' = "connect"
            /\ readyState' = readyState
       ELSE /\ readyState' = ReadyConnecting
            /\ UNCHANGED <<isConnected, lastFlagChange>>
    /\ UNCHANGED <<running, nodeEnv, exitCode, closing, now, store, nextId, reqVars>>
\* connect() invoked once more, after the call at startup has settled: it
\* returns at once when the flag is set; otherwise it calls
\* mongoose.connect, which resolves at once on an open connection and
\* starts to connect on a closed one
ConnectAgain ==
    /\ running
    /\ closing = "none"
    /\ readyState \in {ReadyConnected, ReadyDisconnected}
    /\ connectCalls < MaxConnects
    /\ connectCalls' = connectCalls + 1
    /\ IF isConnected
       THEN UNCHANGED <<isConnected, readyState, lastFlagChange, mongooseConnects>>
       ELSE /\ mongooseConnects' = mongooseConnects + 1
            /\ IF readyState = ReadyConnected
               THEN /\ isConnected' = TRUE
                    /\ lastFlagChange' = "connect"
                    /\ readyState' = readyState
               ELSE /\ readyState' = ReadyConnecting
                    /\ UNCHANGED <<isConnected, lastFlagChange>>
    /\ UNCHANGED <<running, nodeEnv, exitCode, closing, now, store, nextId, reqVars>>

\* disconnect() invoked by caller who: it returns at once when the flag is
\* clear, otherwise it awaits mongoose.connection.close()
DisconnectBy(who) ==
    IF ~isConnected
    THEN UNCHANGED <<closing, readyState>>
    ELSE /\ closing' = who
         /\ readyState' = ReadyDisconnecting

\* disconnect() invoked on the exported connection object
Disconnect ==
    /\ running
    /\ closing = "none"
    /\ DisconnectBy("disconnect")
    /\ UNCHANGED <<running, isConnected, nodeEnv, exitCode, lastFlagChange,
                   connectCalls, mongooseConnects, now, store, nextId, reqVars>>

Signals == {"SIGINT", "SIGTERM"}
\* process.on(sig): await this.disconnect(), then process.exit(0); with the
\* flag clear disconnect() has nothing to await and the process exits
OnSignal(sig) ==
    /\ running
    /\ closing = "none"
    /\ DisconnectBy(sig)
    /\ IF ~isConnected
       THEN /\ running' = FALSE
            /\ exitCode' = 0
       ELSE UNCHANGED <<running, exitCode>>
    /\ UNCHANGED <<isConnected, nodeEnv, lastFlagChange, connectCalls,
                   mongooseConnects, now, store, nextId, reqVars>>

CloseOutcomes == {"closed", "failed"}
\* mongoose.connection.close() settled: when it resolved the flag is
\* cleared, when it rejected disconnect() logs and returns with the
\* connection as it was; a signal handler then exits with code 0
CloseSettle(o) ==
    /\ running
    /\ closing # "none"
    /\ closing' = "none"
    /\ IF o = "closed"
       THEN /\ readyState' = ReadyDisconnected
            /\ isConnected' = FALSE
            /\ lastFlagChange' = "disconnect"
       ELSE /\ readyState' = ReadyConnected
            /\ UNCHANGED <<isConnected, lastFlagChange>>
    /\ IF closing \in Signals
       THEN /\ running' = FALSE
            /\ exitCode' = 0
       ELSE UNCHANGED <<running, exitCode>>
    /\ UNCHANGED <<nodeEnv, connectCalls, mongooseConnects, now, store, nextId, reqVars>>

Tick ==
    /\ running
    /\ now < MaxClock
    /\ now' = now + 1
    /\ UNCHANGED <<dbVars, store, nextId, reqVars>>

Connection ==
    ConnectOk \/ ConnectFail \/ OnDisconnected \/ OnReconnected \/ OnError

(***************************************************************************)
(* Inputs.                                                                 *)
(***************************************************************************)
NameInputs ==
    {Undefined, Str(<<>>), Str(<<" ">>), Str(<<"A", "l">>),
     Str(<<" ", "A", "l", " ">>), Str(Rep("a", NameMaxLen)),
     Str(Rep("a", NameMaxLen + 1)), NumberValue}
EmailInputs == {Undefined, Str(<<"A", "@", "b", ".", "c">>), Str(<<"a", "@", "b">>)}
PhoneInputs == {Undefined, Str(<<"+", "1", "2", " ">>), Str(<<"0", "1">>)}
RequirementInputs ==
    {Undefined, Str(<<" ">> \o Rep("x", RequirementMaxLen - 1)),
     Str(Rep("x", RequirementMaxLen + 1))}
SubmittedAtInputs == {Undefined, Str(IsoString(0)), Str(<<"x">>)}

\* payloads that carry a status of their own
StatusPayloads ==
    {[NoBody EXCEPT !.name = Str(<<"A", "l">>),
                    !.email = Str(<<"A", "@", "b", ".", "c">>),
                    !.status = Str(<<"c", "l", "o", "s", "e", "d">>)],
     [NoBody EXCEPT !.name = Str(<<"A", "l">>),
                    !.status = Str(<<"n", "e", "w">>)]}

Payloads ==
    [name : NameInputs, email : EmailInputs, phone : PhoneInputs,
     requirement : RequirementInputs, submittedAt : SubmittedAtInputs,
     status : {Undefined}]
    \cup StatusPayloads

\* an enquiry stored by an earlier run of the server, already contacted
SeedId == 100
SeedDoc ==
    [id |-> SeedId, name |-> Str(<<"B", "o">>),
     email |-> Str(<<"b", "@", "b", ".", "c">>), phone |-> Null,
     requirement |-> Null, submittedAt |-> 0, status |-> "contacted"]
InitialStores == {{}, {SeedDoc}}

\* the payloads of the concurrent specification
ApiPayloads ==
    {[NoBody EXCEPT !.name = Str(<<"A", "l">>),
                    !.email = Str(<<"A", "@", "b", ".", "c">>)],
     [NoBody EXCEPT !.name = Str(<<"A", "l">>)]}

(***************************************************************************)
(* Spec: one request, handled alone, over every payload of Payloads and    *)
(* every error of ThrownErrors.                                            *)
(***************************************************************************)
SoloReq == CHOOSE r \in Reqs : TRUE
NothingArrived == \A q \in Reqs : pc[q] = "idle"

SoloPost == \E b \in Payloads : NothingArrived /\ PostContact(SoloReq, b)
SoloThrow == \E e \in ThrownErrors : NothingArrived /\ WrappedHandlerThrows(SoloReq, e)
SaveStep == \E r \in Reqs, o \in SaveOutcomes : SaveSettle(r, o)
EnquiryMailStep == \E r \in Reqs, o \in MailOutcomes : EnquiryMailSettle(r, o)
ErrorMailStep == \E r \in Reqs, o \in MailOutcomes : ErrorMailSettle(r, o)

Next ==
    \/ SoloPost
    \/ SoloThrow
    \/ SaveStep
    \/ EnquiryMailStep
    \/ ErrorMailStep
    \/ Connection
    \/ Tick

Spec == Init /\ [][Next]_vars

(***************************************************************************)
(* SpecApi: the requests of Reqs in flight together, POSTs and statistics. *)
(***************************************************************************)
\* requests are numbered in the order they arrive
NextToArrive(r) == \A q \in Reqs : (q < r) = (pc[q] # "idle")

PostStep == \E r \in Reqs, b \in ApiPayloads : NextToArrive(r) /\ PostContact(r, b)
StatsStep ==
    \E r \in Reqs :
      \/ NextToArrive(r) /\ GetStats(r)
      \/ StatsQueryFails(r)
      \/ StatsQueryReturns(r)

NextApi ==
    \/ PostStep
    \/ StatsStep
    \/ SaveStep
    \/ EnquiryMailStep
    \/ ErrorMailStep
    \/ Connection

(***************************************************************************)
(* SpecAdmin: one request, handled alone, over a collection that an        *)
(* administrative process marks as contacted.                              *)
(***************************************************************************)
\* payloads whose email and phone are absent, empty, blank or valid
ContactPayloads ==
    {[NoBody EXCEPT !.name = Str(<<"A", "l">>), !.email = e, !.phone = ph] :
       e \in {Undefined, Str(<<>>), Str(<<" ">>), Str(<<"A", "@", "b", ".", "c">>)},
       ph \in {Undefined, Str(<<" ">>), Str(<<"+", "1", "2", " ">>)}}

AdminPost ==
    \E b \in Payloads \cup ContactPayloads :
      NothingArrived /\ PostContact(SoloReq, b)
MarkStep == \E d \in store : MarkAsContacted(d)

NextAdmin ==
    \/ AdminPost
    \/ SaveStep
    \/ EnquiryMailStep
    \/ ErrorMailStep
    \/ Connection
    \/ MarkStep

\* the server runs in production, and starts on a collection that is
\* empty or holds an enquiry of an earlier run
InitApi == Start({"production"}, InitialStores)

SpecApi == InitApi /\ [][NextApi]_vars
SpecAdmin == InitApi /\ [][NextAdmin]_vars

(***************************************************************************)
(* SpecLive: one request, a POST or a statistics request, handled alone    *)
(* by a server whose store operations and mail sends all settle: each      *)
(* await the handler or the wrapper is suspended at is resumed in the end, *)
(* with a result or with an error.                                         *)
(***************************************************************************)
LivePost ==
    \E b \in ApiPayloads \cup ContactPayloads :
      NothingArrived /\ PostContact(SoloReq, b)
LiveStats == NothingArrived /\ GetStats(SoloReq)
StatsQueryStep == \E r \in Reqs : StatsQueryFails(r) \/ StatsQueryReturns(r)

NextLive ==
    \/ LivePost
    \/ LiveStats
    \/ StatsQueryStep
    \/ SaveStep
    \/ EnquiryMailStep
    \/ ErrorMailStep
    \/ Connection

\* every pending save, query and mail send of request r settles
Settles(r) ==
    /\ WF_vars(\E o \in SaveOutcomes : SaveSettle(r, o))
    /\ WF_vars(StatsQueryFails(r) \/ StatsQueryReturns(r))
    /\ WF_vars(\E o \in MailOutcomes : EnquiryMailSettle(r, o))
    /\ WF_vars(\E o \in MailOutcomes : ErrorMailSettle(r, o))

SpecLive == InitApi /\ [][NextLive]_vars /\ \A r \in Reqs : Settles(r)

(***************************************************************************)
(* SpecConn: the connection object alone: connect() and disconnect()       *)
(* invoked at any time, the connection's events, and the signals.          *)
(***************************************************************************)
SignalStep == \E sig \in Signals : OnSignal(sig)
CloseStep == \E o \in CloseOutcomes : CloseSettle(o)

NextConn ==
    \/ Connection
    \/ ConnectAgain
    \/ Disconnect
    \/ SignalStep
    \/ CloseStep

SpecConn == Init /\ [][NextConn]_vars


(***************************************************************************)
(* Claims.                                                                 *)
(***************************************************************************)
PostDone(r) == kind[r] = "post" /\ pc[r] = "done"
Absent(v) == v = Undefined

\* C1: every POST whose email and phone are both absent, whatever its name,
\* is answered 400 with an errors map that has the keys email and phone.
C1_BothMissingNamesBothFields ==
    \A r \in Reqs :
      (PostDone(r) /\ Absent(body[r].email) /\ Absent(body[r].phone)) =>
        /\ Len(res[r]) = 1
        /\ res[r][1].status = 400
        /\ {"email", "phone"} \subseteq DOMAIN res[r][1].errors

\* C2: every POST whose name is longer than 50 characters, whatever its
\* other fields, is answered 400 with errors.name = 'Name cannot exceed 50
\* characters'.
C2_LongNameNamesLengthError ==
    \A r \in Reqs :
      (PostDone(r) /\ body[r].name.t = "string" /\ Len(body[r].name.s) > 50) =>
        /\ Len(res[r]) = 1
        /\ res[r][1].status = 400
        /\ "name" \in DOMAIN res[r][1].errors
        /\ res[r][1].errors["name"] = MsgNameTooLong

\* the fields other than name are valid: one of email and phone is there,
\* each matches its pattern, the requirement has at most 500 characters and
\* submittedAt, if there, parses
C3_OthersValid(b) ==
    /\ ~Absent(b.email) \/ ~Absent(b.phone)
    /\ ~Absent(b.email) => (b.email.t = "string" /\ EmailRegexTest(b.email.s))
    /\ ~Absent(b.phone) => (b.phone.t = "string" /\ PhoneRegexTest(b.phone.s))
    /\ ~Absent(b.requirement) =>
         (b.requirement.t = "string" /\ Len(b.requirement.s) <= 500)
    /\ ~Absent(b.submittedAt) =>
         (b.submittedAt.t = "string" /\ DateParse(b.submittedAt.s) # InvalidDate)

\* the submission of request r was accepted: its document is the one stored
\* under its identifier and the one response is 201 with success true;
\* unless the store failed the insert, and then nothing was stored
C3_Accepted(r) ==
    \/ /\ {d \in store : d.id = doc[r].id} = {doc[r]}
       /\ Len(res[r]) = 1
       /\ res[r][1].status = 201
       /\ res[r][1].success
    \/ /\ err[r].name \in {"MongoNetworkError", "MongoServerError"}
       /\ \A d \in store : d.id # doc[r].id

\* C3 (as claimed): a POST whose name is a non-empty string of at most 50
\* characters and whose other fields are valid, arriving with the store
\* connected, is accepted.
C3_NonEmptyNameAccepted ==
    \A r \in Reqs :
      (/\ PostDone(r)
       /\ body[r].name.t = "string"
       /\ Len(body[r].name.s) > 0
       /\ Len(body[r].name.s) <= 50
       /\ C3_OthersValid(body[r])
       /\ dbUp[r]) => C3_Accepted(r)

\* C3 (amended): a POST whose name is a string of at most 50 characters
\* that is not only whitespace and whose other fields are valid, arriving
\* with the store connected, is accepted.
C3_TrimmedNameAccepted ==
    \A r \in Reqs :
      (/\ PostDone(r)
       /\ body[r].name.t = "string"
       /\ Len(Trim(body[r].name.s)) > 0
       /\ Len(body[r].name.s) <= 50
       /\ C3_OthersValid(body[r])
       /\ dbUp[r]) => C3_Accepted(r)

\* C3 witness: a 50-character name was stored and answered 201
C3_Witness ==
    \E r \in Reqs :
      /\ PostDone(r)
      /\ Len(body[r].name.s) = 50
      /\ doc[r] \in store
      /\ Len(res[r]) = 1 /\ res[r][1].status = 201

EnquiryMailFailed(r) ==
    \E i \in DOMAIN mail[r] : mail[r][i] = [kind |-> "enquiry", status |-> "failed"]

\* C4: when the notification email of a saved enquiry fails, the failure is
\* logged, the request is still answered 201 with the saved enquiry's
\* identifier, and the stored record is there unchanged.
C4_MailFailureStillCreated ==
    \A r \in Reqs :
      (pc[r] = "done" /\ EnquiryMailFailed(r)) =>
        /\ \E i \in DOMAIN log[r] :
             /\ log[r][i].level = "error"
             /\ log[r][i].message = "Failed to send enquiry notification email"
        /\ Len(res[r]) = 1
        /\ res[r][1].status = 201
        /\ res[r][1].success
        /\ res[r][1].enquiryId = doc[r].id
        /\ {d \in store : d.id = doc[r].id} = {doc[r]}

\* C4 witness: a request whose notification failed is done
C4_Witness == \E r \in Reqs : pc[r] = "done" /\ EnquiryMailFailed(r)

\* C5: the 201 response does not wait for the notification send attempt: no
\* request has its notification still in flight and its response not sent.
C5_ResponseDoesNotWaitForMail ==
    \A r \in Reqs :
      (\E i \in DOMAIN mail[r] : mail[r][i] = Pending("enquiry")) => Len(res[r]) = 1

C7_StatsAnswers ==
    \A r \in Reqs :
      kind[r] = "stats" =>
        /\ ~dbUp[r] =>
             /\ pc[r] = "done"
             /\ stats[r].queries = 0
             /\ Len(res[r]) = 1
             /\ res[r][1].status = 503
             /\ ~res[r][1].success
        /\ (dbUp[r] /\ pc[r] = "done" /\ err[r] = NoError) =>
             /\ Len(res[r]) = 1
             /\ res[r][1].status = 200
             /\ res[r][1].success
             /\ res[r][1].hasData
             /\ DOMAIN res[r][1].data =
                  {"totalEnquiries", "newEnquiries", "contactedEnquiries",
                   "recentEnquiries"}
             /\ stats[r].queries = 4

\* C7 witness: one statistics request was refused and another answered
C7_Witness ==
    \E r, q \in Reqs :
      /\ kind[r] = "stats" /\ pc[r] = "done" /\ ~dbUp[r]
      /\ kind[q] = "stats" /\ pc[q] = "done" /\ dbUp[q] /\ err[q] = NoError

\* C8: no error a wrapped handler throws escapes the wrapper: the promise
\* of the wrapped middleware never rejects.
C8_NothingEscapes == \A r \in Reqs : ~escaped[r]

\* the wrapper answered request r for the error it caught
WrapperAnswered(r) == err[r] # NoError /\ Len(res[r]) > 0
Classified400(e) ==
    e.name = "ValidationError" \/ e.code = 11000 \/ e.name = "CastError"

\* C9 (as claimed): every response of the wrapper has status 400 for a
\* validation, duplicate-entry or cast error and status 500 otherwise.
C9_Only400And500 ==
    \A r \in Reqs :
      WrapperAnswered(r) =>
        res[r][1].status = IF Classified400(err[r]) THEN 400 ELSE 500

\* C9 (amended): every response of the wrapper has status 400 for a
\* validation, duplicate-entry or cast error; otherwise 401 for a
\* JsonWebTokenError, 429 for a TooManyRequests error, and 500 for the rest.
C9_StatusByClass ==
    \A r \in Reqs :
      WrapperAnswered(r) =>
        res[r][1].status =
          IF Classified400(err[r]) THEN 400
          ELSE IF err[r].name = "JsonWebTokenError" THEN 401
          ELSE IF err[r].name = "TooManyRequests" THEN 429
          ELSE 500

\* C9 witness: the wrapper answered a cast error, and not with 500
C9_Witness ==
    \E r \in Reqs :
      WrapperAnswered(r) /\ err[r].name = "CastError" /\ err[r].code = 0
        /\ res[r][1].status = 400

\* C10: for every error the wrapper catches, a log entry with the error's
\* message and the request's url, method, user agent and ip is written, and
\* it is there before a response for that request is sent.
C10_LoggedBeforeResponse ==
    [][\A r \in Reqs :
         (err'[r] # NoError /\ (err[r] = NoError \/ Len(res'[r]) > Len(res[r]))) =>
           LET entry == ErrorEntry("API Error occurred", err'[r].message,
                                   ContextOf(kind'[r], r))
           IN  IF err[r] = NoError
               THEN (\E i \in DOMAIN log'[r] : log'[r][i] = entry) /\ res'[r] = res[r]
               ELSE \E i \in DOMAIN log[r] : log[r][i] = entry]_vars

\* C10 witness: the wrapper answered a request whose error it caught
C10_Witness == \E r \in Reqs : WrapperAnswered(r) /\ pc[r] = "done"

\* the one response of request r is the 201
Answered201(r) == Len(res[r]) = 1 /\ res[r][1].status = 201

\* C11: every Enquiry a POST creates is stored with status 'new', whatever
\* the payload carries (a status of its own included), and the 201 response
\* carries the identifier and the submittedAt of exactly that stored record.
C11_CreatedAsNew ==
    /\ \A d \in store : d.status = "new"
    /\ \A r \in Reqs :
         (PostDone(r) /\ Answered201(r)) =>
           /\ res[r][1].hasEnquiry
           /\ \E d \in store :
                /\ d.id = res[r][1].enquiryId
                /\ \A e \in store : e.id = d.id => e = d
                /\ d = doc[r]
                /\ d.status = "new"
                /\ DateParse(res[r][1].submittedAt) = d.submittedAt

\* C11 witness: a payload with status 'closed' was stored and answered 201
C11_Witness ==
    \E r \in Reqs :
      /\ PostDone(r) /\ Answered201(r)
      /\ body[r].status = Str(<<"c", "l", "o", "s", "e", "d">>)
      /\ doc[r] \in store

\* the record stored for request r
StoredFor(r) == {d \in store : d.id = doc[r].id}
\* a stored optional field f equals the submitted value v: null for an
\* absent one
SameOptional(f, v) == IF Absent(v) THEN f = Null ELSE f = v
\* a stored optional field f is the submitted value v trimmed, null when
\* v is absent or nothing is left of it
TrimmedOptional(f, v) ==
    IF Absent(v) \/ Len(Trim(v.s)) = 0 THEN f = Null ELSE f = Str(Trim(v.s))

\* C12 (as claimed): the record stored for an accepted submission has name,
\* email, phone and requirement equal to the values submitted, and status
\* 'new'.
C12_RoundTripExact ==
    \A r \in Reqs :
      (PostDone(r) /\ Answered201(r)) =>
        \A d \in StoredFor(r) :
          /\ d.name = body[r].name
          /\ SameOptional(d.email, body[r].email)
          /\ SameOptional(d.phone, body[r].phone)
          /\ SameOptional(d.requirement, body[r].requirement)
          /\ d.status = "new"

\* C12 (amended): the record stored for an accepted submission has the
\* submitted name, phone and requirement with the whitespace around them
\* removed, the submitted email likewise and in lower case, null for an
\* optional field that was absent, and status 'new'.
C12_RoundTripNormalized ==
    \A r \in Reqs :
      (PostDone(r) /\ Answered201(r)) =>
        /\ StoredFor(r) # {}
        /\ \A d \in StoredFor(r) :
             /\ d.name = Str(Trim(body[r].name.s))
             /\ IF Absent(body[r].email) THEN d.email = Null
                ELSE d.email = Str(ToLower(Trim(body[r].email.s)))
             /\ TrimmedOptional(d.phone, body[r].phone)
             /\ TrimmedOptional(d.requirement, body[r].requirement)
             /\ d.status = "new"

\* C12 witness: a submission with whitespace around its name, phone and
\* requirement and capitals in its email was stored
C12_Witness ==
    \E r \in Reqs :
      /\ PostDone(r) /\ Answered201(r)
      /\ body[r].name = Str(<<" ", "A", "l", " ">>)
      /\ body[r].email = Str(<<"A", "@", "b", ".", "c">>)
      /\ body[r].phone = Str(<<"+", "1", "2", " ">>)
      /\ ~Absent(body[r].requirement)
      /\ StoredFor(r) # {}

\* the statistics request r was answered 200
StatsOk(r) ==
    /\ kind[r] = "stats" /\ pc[r] = "done" /\ err[r] = NoError /\ dbUp[r]
    /\ Len(res[r]) = 1 /\ res[r][1].status = 200
\* the three counts of a statistics answer
CountsOf(d) == <<d.totalEnquiries, d.newEnquiries, d.contactedEnquiries>>

\* C13: a step of a statistics request leaves the store as it is; and when
\* a statistics request is answered 200 while the store is still what it
\* was when that request and an earlier answered one each started (the
\* store only grows, so nothing was written in between), the two answers
\* carry the same totalEnquiries, newEnquiries and contactedEnquiries.
C13_StatsIdempotent ==
    [][/\ (\E r \in Reqs : kind'[r] = "stats" /\ pc'[r] # pc[r]) => store' = store
       /\ \A q \in Reqs :
            (pc[q] = "count_contacted" /\ StatsOk(q)') =>
              \A r \in Reqs \ {q} :
                (StatsOk(r) /\ stats[r].from = store /\ stats[q].from = store) =>
                  CountsOf(res'[q][1].data) = CountsOf(res[r][1].data)]_vars

\* C13 witness: two statistics requests were answered over the same
\* store, which holds one enquiry, and nothing was written since they began
C13_Witness ==
    \E r, q \in Reqs :
      /\ r # q /\ StatsOk(r) /\ StatsOk(q)
      /\ stats[r].from = store /\ stats[q].from = store
      /\ res[r][1].data.contactedEnquiries = 1
      /\ res[q][1].data.totalEnquiries = 1

\* C14: every record of the store has an email or a phone that is a
\* non-empty string, after any submissions and markAsContacted saves.
C14_ContactPresent ==
    \A d \in store :
      \/ d.email.t = "string" /\ Len(d.email.s) > 0
      \/ d.phone.t = "string" /\ Len(d.phone.s) > 0

\* C14 witness: the store holds two records, and the one a submission
\* created has been marked as contacted
C14_Witness ==
    /\ Cardinality(store) = 2
    /\ \E r \in Reqs :
         /\ PostDone(r) /\ Answered201(r)
         /\ [doc[r] EXCEPT !.status = "contacted"] \in store

\* C15: no step of a POST or statistics request removes a record from the
\* store or changes one that is there: every record of the store is still
\* in it, as it was, after the step, and a record that is added has an
\* identifier no record had before.
C15_StoreOnlyGrows ==
    [][/\ store \subseteq store'
       /\ \A d \in store' \ store : \A e \in store : e.id # d.id]_vars

\* C15 witness: both requests stored a record next to the one that was
\* there when the server started
C15_Witness ==
    /\ SeedDoc \in store
    /\ Cardinality(store) = 3
    /\ \E r, q \in Reqs :
         r # q /\ PostDone(r) /\ Answered201(r) /\ PostDone(q) /\ Answered201(q)

\* a string field that is there and not empty
Given(v) == v.t = "string" /\ Len(v.s) > 0
\* payload b fails one of the handler's validation checks
FailsACheck(b) ==
    \/ ~Given(b.name) /\ b.name.t # "number"
    \/ Given(b.name) /\ Len(Trim(b.name.s)) = 0
    \/ Given(b.name) /\ Len(b.name.s) > 50
    \/ ~Given(b.email) /\ ~Given(b.phone)
    \/ Given(b.requirement) /\ Len(b.requirement.s) > 500
    \/ Given(b.email) /\ ~EmailRegexTest(b.email.s)
    \/ Given(b.phone) /\ ~PhoneRegexTest(b.phone.s)
\* an enquiry notification was attempted for request r
EnquiryMailTried(r) == \E i \in DOMAIN mail[r] : mail[r][i].kind = "enquiry"

\* C16: a POST that fails one of the handler's validation checks, or that
\* finds the store reported disconnected, writes nothing to the store and
\* triggers no enquiry notification.
C16_RejectedWritesNothing ==
    \A r \in Reqs :
      (kind[r] = "post" /\ (FailsACheck(body[r]) \/ ~dbUp[r])) =>
        /\ store = {}
        /\ doc[r] = NoDoc
        /\ pc[r] \notin {"saving", "enquiry_mail"}
        /\ ~EnquiryMailTried(r)

\* C16 witness: a valid submission was refused because the store was
\* reported disconnected while the connection itself was open
C16_Witness ==
    \E r \in Reqs :
      /\ PostDone(r) /\ ~FailsACheck(body[r]) /\ ~dbUp[r]
      /\ readyState = ReadyConnected
      /\ Len(res[r]) = 1
      /\ store = {}

\* C17: every response of POST /api/contact and GET /api/contact/stats
\* carries a boolean success flag, false when the status is 4xx or 5xx and
\* true when it is 2xx.
C17_SuccessFlagMatchesStatus ==
    \A r \in Reqs : \A i \in DOMAIN res[r] :
      /\ res[r][i].success \in BOOLEAN
      /\ res[r][i].status \in (200..299) \cup (400..599)
      /\ res[r][i].success = (res[r][i].status \in 200..299)

\* C17 witness: one request was answered 201 or 200 and another with a
\* server error
C17_Witness ==
    \E r, q \in Reqs :
      /\ Len(res[r]) = 1 /\ res[r][1].status \in {200, 201}
      /\ Len(res[q]) = 1 /\ res[q][1].status \in {500, 503}
      /\ kind[r] # kind[q]

\* no text of the response body a is a stack trace
NoStackIn(a) ==
    /\ a.message # StackText
    /\ a.error # StackText
    /\ \A k \in DOMAIN a.errors : a.errors[k] # StackText

\* C18: no response body carries the stack trace of the error; the 500
\* response carries the error's message when NODE_ENV is 'development' and
\* no error field when it is anything else, and no other response of the
\* wrapper carries an error field.
C18_NoStackAndMessageOnlyInDevelopment ==
    \A r \in Reqs : \A i \in DOMAIN res[r] :
      /\ NoStackIn(res[r][i])
      /\ res[r][i].hasError =
           (res[r][i].status = 500 /\ nodeEnv = "development")
      /\ res[r][i].hasError => res[r][i].error = err[r].message
      /\ ~res[r][i].hasError => res[r][i].error = ""

\* C18 witness: in development a 500 response carries the message of the
\* error, which has a stack
C18_Witness ==
    \E r \in Reqs :
      /\ nodeEnv = "development"
      /\ Len(res[r]) = 1 /\ res[r][1].status = 500
      /\ res[r][1].hasError /\ res[r][1].error = err[r].message
      /\ err[r].stack = StackText

\* C19: the submittedAt stored for an accepted submission that carried
\* none is the clock's reading in the step in which the request arrived and
\* was handled, which no later reading precedes; one that carried a
\* submittedAt that parses is stored with that instant; and the 201
\* response carries the stored submittedAt.
C19_SubmittedAtStored ==
    [][\A r \in Reqs :
         /\ (pc[r] = "idle" /\ pc'[r] = "saving" /\ Absent(body'[r].submittedAt)) =>
              (doc'[r].submittedAt = now /\ now' = now)
         /\ (PostDone(r)' /\ Answered201(r)') =>
              /\ StoredFor(r)' # {}
              /\ \A d \in StoredFor(r)' :
                   /\ Absent(body'[r].submittedAt) =>
                        (d.submittedAt = doc'[r].submittedAt /\ d.submittedAt <= now')
                   /\ ~Absent(body'[r].submittedAt) =>
                        d.submittedAt = DateParse(body'[r].submittedAt.s)
                   /\ DateParse(res'[r][1].submittedAt) = d.submittedAt]_vars

\* C19 witness: a submission without submittedAt that arrived after the
\* clock had advanced was stored with the advanced reading and answered
C19_Witness ==
    \E r \in Reqs :
      /\ PostDone(r) /\ Answered201(r)
      /\ Absent(body[r].submittedAt)
      /\ \E d \in StoredFor(r) : d.submittedAt = 1 /\ res[r][1].submittedAt = IsoString(1)

\* the save of request r succeeded
Saved(r) == kind[r] = "post" /\ (pc[r] = "enquiry_mail" \/ Answered201(r))

\* C20: however the submissions in flight interleave, each one whose save
\* succeeded has exactly one record in the store, its own, under an
\* identifier no other submission has; the store holds exactly one record
\* per such submission besides those it started with; and each 201
\* response carries the identifier and submittedAt of the record of its own
\* request, which holds that request's name.
C20_SubmissionsIndependent ==
    /\ \A r \in Reqs :
         Saved(r) =>
           /\ StoredFor(r) = {doc[r]}
           /\ doc[r].name = Str(Trim(body[r].name.s))
           /\ \A q \in Reqs \ {r} : Saved(q) => doc[q].id # doc[r].id
           /\ Answered201(r) =>
                /\ res[r][1].enquiryId = doc[r].id
                /\ DateParse(res[r][1].submittedAt) = doc[r].submittedAt
    /\ Cardinality({d \in store : d.id # SeedId}) =
         Cardinality({r \in Reqs : Saved(r)})

\* C20 witness: two submissions were in flight together, and the one that
\* arrived second was answered, with its own record, while the first one
\* was still waiting for its notification
C20_Witness ==
    \E r, q \in Reqs :
      /\ r < q
      /\ kind[r] = "post" /\ pc[r] = "enquiry_mail"
      /\ PostDone(q) /\ Answered201(q)
      /\ res[q][1].enquiryId = doc[q].id /\ doc[q].id # doc[r].id
      /\ {doc[r], doc[q]} \subseteq store

\* the fields a payload violates a rule on: name when it is missing or
\* blank, email when neither email nor phone is there
ViolatesNameRule(b) == ~Given(b.name) \/ Len(Trim(b.name.s)) = 0
ViolatesContactRule(b) == ~Given(b.email) /\ ~Given(b.phone)

\* C21: a POST whose payload violates several rules is answered with one
\* 400 whose errors map names every violated field: with an empty or
\* missing name and neither email nor phone, it has name = 'Name is
\* required' and email = 'Either email or phone number must be provided'.
C21_EveryViolationListed ==
    \A r \in Reqs :
      (PostDone(r) /\ body[r].name.t # "number"
         /\ ViolatesNameRule(body[r]) /\ ViolatesContactRule(body[r])) =>
        /\ Len(res[r]) = 1
        /\ res[r][1].status = 400
        /\ {"name", "email"} \subseteq DOMAIN res[r][1].errors
        /\ res[r][1].errors["name"] = MsgNameRequired
        /\ res[r][1].errors["email"] = MsgContactRequired

\* C22: whenever the process exits with code 0, which it does only from a
\* SIGINT or SIGTERM handler, the mongoose connection is not open any more:
\* a connection that was open when the signal arrived has been closed, in
\* every state of the isConnected flag.
C22_ClosedBeforeExit ==
    exitCode = 0 => readyState # ReadyConnected

\* the enquiry notifications attempted for request r
EnquiryMails(r) == {i \in DOMAIN mail[r] : mail[r][i].kind = "enquiry"}
\* the document of request r is in the collection
Persisted(r) == \E d \in store : d.id = doc[r].id

\* C23: an enquiry notification is attempted for a request only when that
\* request's document has been saved, at most one notification is
\* attempted per request, and a 201 is sent only for a saved document.
C23_PersistBeforeNotify ==
    \A r \in Reqs :
      /\ EnquiryMails(r) # {} => Persisted(r)
      /\ Cardinality(EnquiryMails(r)) <= 1
      /\ (\E i \in DOMAIN res[r] : res[r][i].status = 201) => Persisted(r)
      /\ (kind[r] = "post" /\ Persisted(r)) => Cardinality(EnquiryMails(r)) = 1
\* a notification failed for a saved enquiry and was not tried again,
\* while another request was still being saved
C23_Witness ==
    \E r, q \in Reqs :
      /\ r # q
      /\ PostDone(r) /\ Persisted(r) /\ Answered201(r)
      /\ \E i \in EnquiryMails(r) : mail[r][i].status = "failed"
      /\ pc[q] = "saving" /\ ~Persisted(q) /\ EnquiryMails(q) = {}

\* the six validation rules in the order the claim gives them: whether
\* payload b violates the rule, and the errors map the rule reports
RulesInOrder(b) ==
    << [fails |-> ViolatesNameRule(b),
        errors |-> ("name" :> MsgNameRequired)],
       [fails |-> ViolatesContactRule(b),
        errors |-> ("email" :> MsgContactRequired) @@ ("phone" :> MsgContactRequired)],
       [fails |-> Given(b.name) /\ Len(b.name.s) > 50,
        errors |-> ("name" :> MsgNameTooLong)],
       [fails |-> Given(b.requirement) /\ Len(b.requirement.s) > 500,
        errors |-> ("requirement" :> MsgRequirementTooLong)],
       [fails |-> Given(b.email) /\ ~EmailRegexTest(b.email.s),
        errors |-> ("email" :> MsgEmailInvalid)],
       [fails |-> Given(b.phone) /\ ~PhoneRegexTest(b.phone.s),
        errors |-> ("phone" :> MsgPhoneInvalid)] >>
\* the rules, of the sequence rules, that are violated
FailedRules(rules) == {i \in DOMAIN rules : rules[i].fails}

C25_ExactlyOneResponse ==
    \A r \in Reqs :
      kind[r] \in {"post", "stats"} =>
        /\ Len(res[r]) <= 1
        /\ pc[r] = "done" => Len(res[r]) = 1
        /\ pc[r] # "done" => Len(res[r]) = 0
        /\ ~escaped[r]
\* both requests are answered once: a POST with 201 after its notification
\* failed, the other by the wrapper after the mail about its error failed
C25_Witness ==
    \E r, q \in Reqs :
      /\ r # q
      /\ PostDone(r) /\ Answered201(r) /\ Len(res[r]) = 1
      /\ \E i \in EnquiryMails(r) : mail[r][i].status = "failed"
      /\ pc[q] = "done" /\ Len(res[q]) = 1 /\ err[q] # NoError
      /\ \E i \in DOMAIN mail[q] : mail[q][i] = [kind |-> "error", status |-> "failed"]

\* C27: in every successful statistics response the enquiries counted as
\* new and those counted as contacted are together no more than the total,
\* whatever POSTs insert between the count queries.
C27_CountsWithinTotal ==
    \A r \in Reqs :
      StatsOk(r) =>
        res[r][1].data.newEnquiries + res[r][1].data.contactedEnquiries
          <= res[r][1].data.totalEnquiries

\* the mail about the error of request r, once handleError has asked for it
ErrorMails(r) == {i \in DOMAIN mail[r] : mail[r][i].kind = "error"}

\* C28: two requests whose handlers failed with the same error get the same
\* response from handleError, however the mails about their errors ended,
\* and no response is sent while that mail is still being attempted.
C28_ResponseIgnoresErrorMail ==
    /\ \A r, q \in Reqs :
         (WrapperAnswered(r) /\ WrapperAnswered(q) /\ err[r] = err[q]) =>
           res[r] = res[q]
    /\ \A r \in Reqs :
         (\E i \in ErrorMails(r) : mail[r][i].status = "pending") => res[r] = <<>>
    /\ \A r \in Reqs :
         WrapperAnswered(r) =>
           /\ ErrorMails(r) # {}
           /\ \A i \in ErrorMails(r) : mail[r][i].status \in {"sent", "failed"}
\* two requests failed with the same validation error; the mail about one
\* was sent, the mail about the other failed
C28_Witness ==
    \E r, q \in Reqs :
      /\ WrapperAnswered(r) /\ WrapperAnswered(q)
      /\ err[r] = err[q] /\ err[r].name = "ValidationError"
      /\ \E i \in ErrorMails(r) : mail[r][i].status = "sent"
      /\ \E i \in ErrorMails(q) : mail[q][i].status = "failed"

\* the fields the handler checks
HandlerFields == {"name", "email", "phone", "requirement"}
\* the handler's checks passed for request r and it built its document
BuiltDocument(r) == kind[r] = "post" /\ doc[r] # NoDoc

\* C29: the document built from a payload that passed every check of the
\* handler satisfies the schema's validators of name, email, phone and
\* requirement and the pre-save check, so its save is never rejected with a
\* validation error on one of these fields.
C29_HandlerRefinesSchema ==
    \A r \in Reqs :
      BuiltDocument(r) =>
        /\ DOMAIN SchemaErrors(doc[r]) \cap HandlerFields = {}
        /\ ~PreSaveFails(doc[r])
        /\ err[r].name = "ValidationError" =>
             /\ err[r].hasErrors
             /\ DOMAIN err[r].errors \cap HandlerFields = {}
\* a payload with a padded name, an upper-case email, a padded phone and a
\* requirement of 500 characters passed the handler and was saved
C29_Witness ==
    \E r \in Reqs :
      /\ BuiltDocument(r) /\ Persisted(r)
      /\ body[r].name = Str(<<" ", "A", "l", " ">>)
      /\ Given(body[r].email) /\ Given(body[r].phone)
      /\ body[r].phone.s # doc[r].phone.s
      /\ Given(body[r].requirement) /\ Len(body[r].requirement.s) = 500

\* the occurrences that set the isConnected flag
FlagSetters == {"connect", "connected", "reconnected"}
\* a step in which connect() was invoked
ConnectInvoked == connectCalls' # connectCalls

\* C30: isDbConnected() is true only when readyState is 1 and the last
\* occurrence that wrote the flag was a successful connect() or a
\* 'connected' or 'reconnected' event; and a connect() invoked while the
\* flag is set does not call mongoose.connect and changes nothing of the
\* connection.
C30_FlagFollowsConnection ==
    /\ [](isDbConnected =>
            readyState = ReadyConnected /\ lastFlagChange \in FlagSetters)
    /\ [][(ConnectInvoked /\ isConnected) =>
            /\ mongooseConnects' = mongooseConnects
            /\ UNCHANGED <<isConnected, readyState, lastFlagChange>>]_vars
\* connect() was invoked again on a connection that had been lost and had
\* come back, and mongoose.connect was not called a second time
C30_Witness ==
    /\ connectCalls = 2
    /\ mongooseConnects = 1
    /\ isDbConnected
    /\ lastFlagChange = "reconnected"

\* request r has been accepted; it has been answered
Accepted(r) == pc[r] # "idle"
Responded(r) == Len(res[r]) > 0

====
